---------------------------- MODULE Spec2Model ----------------------------
(***************************************************************************)
(* tomldir: a parsed TOML tree (toml::Value) is flattened once into a      *)
(* string-keyed Store (HashMap, BTreeMap or IndexMap) that a Config shares *)
(* behind an Arc and only reads afterwards.                                *)
(*                                                                         *)
(* Strings that take part in key building or key ordering are modelled as  *)
(* sequences of one-character strings, so that concatenation, emptiness    *)
(* and the byte order used by BTreeMap are computed and not assumed.       *)
(***************************************************************************)
EXTENDS Integers, Sequences, FiniteSets, Bags, TLC

VARIABLES source, root, built, stores, heap, ptr, last, iters

vars == <<source, root, built, stores, heap, ptr, last, iters>>

(***************************************************************************)
(* Bounds of the model.                                                    *)
(***************************************************************************)
\* Largest number of nodes (tables, arrays, scalars) of a tree value
MaxNodes == 5
\* Largest number of top-level fields of a document of the read model
MaxFields == 2
\* Largest number of top-level fields of a document of the sharing model
ShareFields == 2
\* Largest number of handles of one Config alive at once
MaxHandles == 2
\* Largest number of iterators of Config::flatten alive at once
MaxIters == 2
\* Largest number of key/value lines of a source document
MaxLines == 3

(***************************************************************************)
(* Characters and strings.                                                 *)
(***************************************************************************)
Chars == {".", "0", "1", "2", "3", "4", "5", "6", "7", "8", "9", "[", "]", "a", "b"}

\* The byte of each character: String's Ord compares bytes
Byte(c) ==
  CASE c = "." -> 46
    [] c = "0" -> 48 [] c = "1" -> 49 [] c = "2" -> 50 [] c = "3" -> 51
    [] c = "4" -> 52 [] c = "5" -> 53 [] c = "6" -> 54 [] c = "7" -> 55
    [] c = "8" -> 56 [] c = "9" -> 57
    [] c = "[" -> 91 [] c = "]" -> 93
    [] c = "a" -> 97 [] c = "b" -> 98

RECURSIVE StrLess(_, _)
\* a < b for Strings: lexicographic on bytes, a proper prefix is smaller
StrLess(a, b) ==
  IF b = <<>> THEN FALSE
  ELSE IF a = <<>> THEN TRUE
  ELSE IF Head(a) = Head(b) THEN StrLess(Tail(a), Tail(b))
  ELSE Byte(Head(a)) < Byte(Head(b))

DigitChars == <<"0", "1", "2", "3", "4", "5", "6", "7", "8", "9">>

RECURSIVE FormatInt(_)
\* Display of a non-negative integer: base 10, no leading zeros
FormatInt(i) ==
  IF i < 10 THEN <<DigitChars[i + 1]>>
  ELSE FormatInt(i \div 10) \o <<DigitChars[(i % 10) + 1]>>

\* Field names a TOML document can carry: bare, quoted empty, quoted dotted
FieldNames == {<<>>, <<"a">>, <<"a", ".", "a">>}

(***************************************************************************)
(* toml::Value.                                                            *)
(***************************************************************************)
StringV(s)   == [tag |-> "String", str |-> s]
IntegerV(i)  == [tag |-> "Integer", int |-> i]
FloatV(t)    == [tag |-> "Float", tenths |-> t]
BooleanV(b)  == [tag |-> "Boolean", bool |-> b]
DatetimeV(d) == [tag |-> "Datetime", date |-> d]
ArrayV(es)   == [tag |-> "Array", elems |-> es]
TableV(kvs)  == [tag |-> "Table", entries |-> kvs]

\* Value::is_table
is_table(v) == v.tag = "Table"

\* Option<T>
None == [some |-> FALSE]
Some(x) == [some |-> TRUE, val |-> x]

\* A faulty as_float that widens an integer to a float
as_float_Coerce(v) ==
  IF v.tag = "Float" THEN Some(v.tenths)
  ELSE IF v.tag = "Integer" THEN Some(v.int * 10)
  ELSE None

\* Value::as_str, as_integer, as_float, as_bool
as_str(v) == IF v.tag = "String" THEN Some(v.str) ELSE None
as_integer(v) == IF v.tag = "Integer" THEN Some(v.int) ELSE None
as_float(v) == IF v.tag = "Float" THEN Some(v.tenths) ELSE None
as_bool(v) == IF v.tag = "Boolean" THEN Some(v.bool) ELSE None

\* The scalars of the tree-shaped inputs
Scalars == {IntegerV(1), StringV(<<"a">>)}

\* Sequences of m distinct field names: the keys of one table, in its order
RECURSIVE NameSeqs(_)
NameSeqs(m) ==
  IF m = 0 THEN {<<>>}
  ELSE {Append(s, n) : s \in {t \in NameSeqs(m - 1) : TRUE}, n \in FieldNames}

DistinctNameSeqs(m) ==
  {s \in NameSeqs(m) : \A i, j \in 1..m : i # j => s[i] # s[j]}

RECURSIVE Zip(_, _)
\* <<<<ns[1], vs[1]>>, ..., <<ns[m], vs[m]>>>>
Zip(ns, vs) ==
  IF ns = <<>> THEN <<>>
  ELSE <<<<Head(ns), Head(vs)>>>> \o Zip(Tail(ns), Tail(vs))

RECURSIVE ForestsOf(_, _, _)
\* Sequences of m values with k nodes in all, given bySize[j], the values of j
\* nodes, for every j < k + 1
ForestsOf(bySize, k, m) ==
  IF m = 0 THEN (IF k = 0 THEN {<<>>} ELSE {})
  ELSE UNION {{<<t>> \o f : t \in bySize[j], f \in ForestsOf(bySize, k - j, m - 1)} :
              j \in 1..(k - m + 1)}

\* Values with exactly k nodes, given the smaller ones
TreesOfSize(bySize, k) ==
  (IF k = 1 THEN Scalars ELSE {})
  \cup UNION {{ArrayV(f) : f \in ForestsOf(bySize, k - 1, m)}
              \cup {TableV(Zip(ns, f)) :
                    ns \in DistinctNameSeqs(m), f \in ForestsOf(bySize, k - 1, m)} :
              m \in 0..(k - 1)}

RECURSIVE TreesBySize(_)
\* <<the values of 1 node, ..., the values of n nodes>>
TreesBySize(n) ==
  IF n = 0 THEN <<>>
  ELSE LET smaller == TreesBySize(n - 1)
       IN Append(smaller, TreesOfSize(smaller, n))

\* The union of the sets of a tuple of sets
RECURSIVE UnionOf(_)
UnionOf(sets) == IF sets = <<>> THEN {} ELSE Head(sets) \cup UnionOf(Tail(sets))

\* Values of at most n nodes
Trees(n) == UnionOf(TreesBySize(n))

(***************************************************************************)
(* Store: the three backings.                                              *)
(***************************************************************************)
Backings == {"HashMap", "BTreeMap", "IndexMap"}

\* S::default()
StoreDefault(S) == <<>>

\* HashMap: a function from keys to values
HashMap_insert(m, key, value) ==
  [k \in (DOMAIN m) \cup {key} |-> IF k = key THEN value ELSE m[k]]

HashMap_get(m, key) == IF key \in DOMAIN m THEN Some(m[key]) ELSE None

\* BTreeMap: the entries in ascending key order
BTreeMap_insert(m, key, value) ==
  IF \E i \in 1..Len(m) : m[i][1] = key
  THEN [i \in 1..Len(m) |-> IF m[i][1] = key THEN <<key, value>> ELSE m[i]]
  ELSE LET n == Cardinality({i \in 1..Len(m) : StrLess(m[i][1], key)})
       IN SubSeq(m, 1, n) \o <<<<key, value>>>> \o SubSeq(m, n + 1, Len(m))

\* A faulty insert that appends an entry even when the key is present
IndexMap_insert_Append(m, key, value) == Append(m, <<key, value>>)

\* A faulty insert that moves an overwritten key to the end
IndexMap_insert_MoveToEnd(m, key, value) ==
  Append(SelectSeq(m, LAMBDA e : e[1] # key), <<key, value>>)

\* IndexMap: the entries in order of first insertion; an existing key keeps
\* its place and takes the new value
IndexMap_insert(m, key, value) ==
  IF \E i \in 1..Len(m) : m[i][1] = key
  THEN [i \in 1..Len(m) |-> IF m[i][1] = key THEN <<key, value>> ELSE m[i]]
  ELSE Append(m, <<key, value>>)

SeqMap_get(m, key) ==
  IF \E i \in 1..Len(m) : m[i][1] = key
  THEN Some(m[CHOOSE i \in 1..Len(m) : m[i][1] = key][2])
  ELSE None

\* Store::insert
StoreInsert(S, m, key, value) ==
  CASE S = "HashMap" -> HashMap_insert(m, key, value)
    [] S = "BTreeMap" -> BTreeMap_insert(m, key, value)
    [] S = "IndexMap" -> IndexMap_insert(m, key, value)

\* Store::get
StoreGet(S, m, key) ==
  CASE S = "HashMap" -> HashMap_get(m, key)
    [] S = "BTreeMap" -> SeqMap_get(m, key)
    [] S = "IndexMap" -> SeqMap_get(m, key)

\* Store::iter of BTreeMap and IndexMap: the entries in the order kept
SeqMap_iter(m) == m

RECURSIVE Orderings(_)
\* Every sequence that lists each element of a finite set once
Orderings(set) ==
  IF set = {} THEN {<<>>}
  ELSE UNION {{<<x>> \o rest : rest \in Orderings(set \ {x})} : x \in set}

\* Store::iter of HashMap: every entry once, in an unspecified order
HashMap_iter(m) == Orderings({<<k, m[k]>> : k \in DOMAIN m})

\* Store::iter: the iteration orders the backing can produce
StoreIter(S, m) ==
  CASE S = "HashMap" -> HashMap_iter(m)
    [] S = "BTreeMap" -> {SeqMap_iter(m)}
    [] S = "IndexMap" -> {SeqMap_iter(m)}

\* The keys a store holds
StoreKeys(S, m) ==
  IF S = "HashMap" THEN DOMAIN m ELSE {m[i][1] : i \in 1..Len(m)}

(***************************************************************************)
(* The Flattener.                                                          *)
(***************************************************************************)
RECURSIVE flatten_value(_, _, _, _), FlattenTable(_, _, _, _), FlattenArray(_, _, _, _, _)

\* A faulty table walk that joins prefix and name without the "."
FlattenTable_NoSep(S, store, prefix, entries) ==
  IF entries = <<>> THEN store
  ELSE LET k == Head(entries)[1]
           v == Head(entries)[2]
       IN FlattenTable(S, flatten_value(S, store, prefix \o k, v), prefix, Tail(entries))

\* A faulty array walk that numbers the elements from one
FlattenArray_OneBased(S, store, prefix, elems, i) ==
  IF elems = <<>> THEN store
  ELSE LET key == prefix \o <<"[">> \o FormatInt(i + 1) \o <<"]">>
       IN FlattenArray(S, flatten_value(S, store, key, Head(elems)), prefix,
                       Tail(elems), i + 1)

\* A faulty walk that expands every non-empty array, whatever its first element
flatten_value_ExpandAll(S, store, prefix, value) ==
  CASE value.tag = "Table" -> FlattenTable(S, store, prefix, value.entries)
    [] value.tag = "Array" ->
         IF value.elems # <<>>
         THEN FlattenArray(S, store, prefix, value.elems, 0)
         ELSE IF prefix # <<>> THEN StoreInsert(S, store, prefix, value) ELSE store
    [] OTHER -> IF prefix # <<>> THEN StoreInsert(S, store, prefix, value) ELSE store

\* A faulty walk that keeps every array whole, whatever its first element
flatten_value_KeepAll(S, store, prefix, value) ==
  CASE value.tag = "Table" -> FlattenTable(S, store, prefix, value.entries)
    [] OTHER -> IF prefix # <<>> THEN StoreInsert(S, store, prefix, value) ELSE store

\* A faulty walk that inserts a scalar under the empty prefix too
flatten_value_NoGuard(S, store, prefix, value) ==
  CASE value.tag = "Table" -> FlattenTable(S, store, prefix, value.entries)
    [] value.tag = "Array" ->
         IF value.elems # <<>> /\ is_table(Head(value.elems))
         THEN FlattenArray(S, store, prefix, value.elems, 0)
         ELSE IF prefix # <<>> THEN StoreInsert(S, store, prefix, value) ELSE store
    [] OTHER -> StoreInsert(S, store, prefix, value)

\* for (k, v) in table { key = if prefix.is_empty() { k } else { prefix.k } ... }
FlattenTable(S, store, prefix, entries) ==
  IF entries = <<>> THEN store
  ELSE LET k == Head(entries)[1]
           v == Head(entries)[2]
           key == IF prefix = <<>> THEN k ELSE prefix \o <<".">> \o k
       IN FlattenTable(S, flatten_value(S, store, key, v), prefix, Tail(entries))

\* for (i, v) in array.into_iter().enumerate() { key = prefix[i] ... }
FlattenArray(S, store, prefix, elems, i) ==
  IF elems = <<>> THEN store
  ELSE LET key == prefix \o <<"[">> \o FormatInt(i) \o <<"]">>
       IN FlattenArray(S, flatten_value(S, store, key, Head(elems)), prefix,
                       Tail(elems), i + 1)

flatten_value(S, store, prefix, value) ==
  CASE value.tag = "Table" -> FlattenTable(S, store, prefix, value.entries)
    [] value.tag = "Array" ->
         LET is_table_array == value.elems # <<>> /\ is_table(Head(value.elems))
         IN IF is_table_array
            THEN FlattenArray(S, store, prefix, value.elems, 0)
            ELSE IF prefix # <<>>
                 THEN StoreInsert(S, store, prefix, value)
                 ELSE store
    [] OTHER -> IF prefix # <<>>
                THEN StoreInsert(S, store, prefix, value)
                ELSE store

\* Config::<S>::from_toml_with, after the parser returned `content`'s tree
from_toml_with(S, content) == flatten_value(S, StoreDefault(S), <<>>, content)

(***************************************************************************)
(* State machine of the flattening model: a Config of every backing is     *)
(* constructed from the same tree.                                         *)
(***************************************************************************)
\* source: the text of the document, where the model follows the parser;
\* root: the parsed tree; built: the backings a Config was constructed with;
\* stores: the Store each construction produced; heap: the Arc allocations;
\* ptr: the Arc each Config handle refers to (0: the handle is gone);
\* last: the latest read and what it returned;
\* iters: the iterators that calls of Config::flatten returned and that are
\* alive, as a bag (two of them can be in the same state)
Handles == DOMAIN ptr

NoRead == [op |-> "none"]

Unbuilt ==
  /\ built = {}
  /\ stores = [S \in Backings |-> StoreDefault(S)]
  /\ heap = <<>>
  /\ ptr = [h \in 1..MaxHandles |-> 0]
  /\ last = NoRead
  /\ iters = EmptyBag

Live(h) == ptr[h] # 0

\* The Store a handle reads: self.store
StoreOf(h) == heap[ptr[h]].data

\* The type S of the Config<S> of a handle
BackingOf(h) == heap[ptr[h]].backing

\* A new handle on an Arc: it takes the first place a dropped handle left,
\* or a new place
NewHandle(arc) ==
  IF \E h \in Handles : ~Live(h)
  THEN [ptr EXCEPT ![CHOOSE h \in Handles :
                       ~Live(h) /\ \A other \in Handles : other < h => Live(other)] = arc]
  ELSE Append(ptr, arc)

\* The body of from_toml_with once the parser returned the tree: flatten it
\* into S::default(), wrap the Store in Arc::new, return the Config
Construct(S, tree) ==
  /\ S \notin built
  /\ built' = built \cup {S}
  /\ stores' = [stores EXCEPT ![S] = from_toml_with(S, tree)]
  /\ heap' = Append(heap, [data |-> from_toml_with(S, tree), backing |-> S,
                           strong |-> 1, freed |-> FALSE])
  /\ ptr' = NewHandle(Len(heap) + 1)
  /\ UNCHANGED <<source, last, iters>>

\* Config::<S>::from_toml_with, the tree of the document given
FromTomlWith(S) == Construct(S, root) /\ UNCHANGED root

\* The flattening, read and sharing models start from the parsed tree
NoSource == [lines |-> <<>>, preserve_order |-> FALSE]

\* toml::from_str::<Value> gives a Table at the root
Init ==
  /\ source = NoSource
  /\ root \in {t \in Trees(MaxNodes) : is_table(t)}
  /\ Unbuilt

\* One Config per backing, constructed in any order
Next == \E S \in Backings : FromTomlWith(S)

Spec == Init /\ [][Next]_vars

(***************************************************************************)
(* State machine of the document model: a source document of dotted-key    *)
(* lines is parsed and the tree is loaded into a Config of every backing.  *)
(***************************************************************************)
\* The names of the keys of a source document: bare b, bare a, quoted "a.b"
DocNames == {<<"b">>, <<"a">>, <<"a", ".", "b">>}

\* The dotted keys of a source document: one name or two
DocPaths == {<<n>> : n \in DocNames} \cup {<<n, m>> : n \in DocNames, m \in DocNames}

IsProperPrefix(p, q) == Len(p) < Len(q) /\ SubSeq(q, 1, Len(p)) = p

RECURSIVE PathSeqs(_)
\* Sequences of m dotted keys that one document can hold: no key twice and
\* no key that leads through the value of another
PathSeqs(m) ==
  IF m = 0 THEN {<<>>}
  ELSE {Append(ps, p) : ps \in PathSeqs(m - 1), p \in DocPaths} \cap
       {qs \in [1..m -> DocPaths] :
          \A i \in 1..(m - 1) :
            qs[i] # qs[m] /\ ~IsProperPrefix(qs[i], qs[m]) /\ ~IsProperPrefix(qs[m], qs[i])}

\* Source documents of at most n lines, line i being `key = i`, for a parser
\* built with or without toml's preserve_order
Sources(n) ==
  UNION {{[lines |-> [i \in 1..m |-> <<ps[i], IntegerV(i)>>], preserve_order |-> po] :
          ps \in PathSeqs(m), po \in BOOLEAN} : m \in 0..n}

\* toml's Table: an IndexMap with preserve_order (a new name goes last), a
\* BTreeMap without (the names stay sorted)
TableInsert(entries, name, v, po) ==
  IF \E i \in 1..Len(entries) : entries[i][1] = name
  THEN [i \in 1..Len(entries) |-> IF entries[i][1] = name THEN <<name, v>> ELSE entries[i]]
  ELSE IF po THEN Append(entries, <<name, v>>)
  ELSE LET n == Cardinality({i \in 1..Len(entries) : StrLess(entries[i][1], name)})
       IN SubSeq(entries, 1, n) \o <<<<name, v>>>> \o SubSeq(entries, n + 1, Len(entries))

RECURSIVE InsertAt(_, _, _, _)
\* The parser on one line `path = v`: the tables on the path are made where
\* they are missing and v is put under the last name
InsertAt(entries, path, v, po) ==
  IF Len(path) = 1 THEN TableInsert(entries, path[1], v, po)
  ELSE LET sub == IF SeqMap_get(entries, path[1]).some
                  THEN SeqMap_get(entries, path[1]).val.entries
                  ELSE <<>>
       IN TableInsert(entries, path[1], TableV(InsertAt(sub, Tail(path), v, po)), po)

RECURSIVE ParseLines(_, _)
ParseLines(lines, po) ==
  IF lines = <<>> THEN <<>>
  ELSE LET l == lines[Len(lines)]
       IN InsertAt(ParseLines(SubSeq(lines, 1, Len(lines) - 1), po), l[1], l[2], po)

\* toml::from_str::<Value>
from_str(src) == TableV(ParseLines(src.lines, src.preserve_order))

\* Nothing is parsed yet
InitDoc ==
  /\ source \in Sources(MaxLines)
  /\ root = TableV(<<>>)
  /\ Unbuilt

\* Config::<S>::from_toml_with on the source text: parse, then flatten and
\* wrap
LoadSource(S) ==
  /\ root' = from_str(source)
  /\ Construct(S, from_str(source))

\* One Config per backing, constructed in any order
NextDoc == \E S \in Backings : LoadSource(S)

SpecDoc == InitDoc /\ [][NextDoc]_vars


(***************************************************************************)
(* Display of a value, as Config::flatten uses it.                          *)
(***************************************************************************)
RECURSIVE Display(_), DisplayList(_)
\* The elements of an array, separated by ", "
DisplayList(es) ==
  IF es = <<>> THEN <<>>
  ELSE IF Len(es) = 1 THEN Display(es[1])
  ELSE Display(es[1]) \o <<",", " ">> \o DisplayList(Tail(es))

\* Value::to_string
Display(v) ==
  CASE v.tag = "String" -> <<"\"">> \o v.str \o <<"\"">>
    [] v.tag = "Integer" -> FormatInt(v.int)
    [] v.tag = "Float" -> FormatInt(v.tenths \div 10) \o <<".">> \o FormatInt(v.tenths % 10)
    [] v.tag = "Boolean" -> IF v.bool THEN <<"t", "r", "u", "e">>
                                      ELSE <<"f", "a", "l", "s", "e">>
    [] v.tag = "Datetime" -> v.date
    [] v.tag = "Array" -> <<"[">> \o DisplayList(v.elems) \o <<"]">>

\* A faulty rendering that uses the display form for a string too
RenderValue_Display(v) == Display(v)

\* v.as_str().map_or_else(|| v.to_string(), ToString::to_string)
RenderValue(v) == IF as_str(v).some THEN as_str(v).val ELSE Display(v)

RECURSIVE CollectBTree(_)
\* FromIterator for BTreeMap<String, String>: insert pair after pair
CollectBTree(pairs) ==
  IF pairs = <<>> THEN <<>>
  ELSE LET p == pairs[Len(pairs)]
       IN BTreeMap_insert(CollectBTree(SubSeq(pairs, 1, Len(pairs) - 1)), p[1], p[2])

\* FromIterator for the collection C
Collect(C, pairs) == IF C = "BTreeMap" THEN CollectBTree(pairs) ELSE pairs

Collections == {"Vec", "BTreeMap"}

(***************************************************************************)
(* State machine of the read model: one Config<S> is constructed from a    *)
(* document and its handles are shared, dropped and read.                  *)
(***************************************************************************)
\* The values of the documents of the read model, one of every type
ReadValues ==
  {StringV(<<"a">>), IntegerV(10), FloatV(55), BooleanV(TRUE),
   DatetimeV(<<"1", "9", "7", "9", "-", "0", "5", "-", "2", "7">>),
   ArrayV(<<IntegerV(80), IntegerV(443)>>)}

\* The values of the documents of the sharing model
ShareValues == {BooleanV(TRUE), FloatV(55)}

RECURSIVE ValueSeqs(_, _)
ValueSeqs(vals, m) ==
  IF m = 0 THEN {<<>>}
  ELSE {Append(s, v) : s \in ValueSeqs(vals, m - 1), v \in vals}

\* Documents of at most n top-level fields with values of vals
ReadDocs(vals, n) ==
  UNION {{TableV(Zip(ns, vs)) : ns \in DistinctNameSeqs(m), vs \in ValueSeqs(vals, m)} :
         m \in 0..n}

\* The keys the reads ask for: every field name and an indexed key
ReadKeys == FieldNames \cup {<<"a", "[", "0", "]">>}

InitRead ==
  /\ source = NoSource
  /\ root \in ReadDocs(ReadValues, MaxFields)
  /\ Unbuilt

\* The backing of the one Config of the read and sharing models
Backing == CHOOSE S \in Backings : S \in built

\* A faulty clone that copies the Store into an allocation of its own
Clone_DeepCopy(h) ==
  /\ Live(h)
  /\ heap[ptr[h]].strong < MaxHandles
  /\ ptr' = NewHandle(Len(heap) + 1)
  /\ heap' = Append(heap, [data |-> StoreOf(h), backing |-> BackingOf(h),
                           strong |-> 1, freed |-> FALSE])
  /\ UNCHANGED <<source, root, built, stores, last, iters>>

\* Clone for Config: Arc::clone(&self.store)
Clone(h) ==
  /\ Live(h)
  /\ heap[ptr[h]].strong < MaxHandles
  /\ ptr' = NewHandle(ptr[h])
  /\ heap' = [heap EXCEPT ![ptr[h]].strong = @ + 1]
  /\ UNCHANGED <<source, root, built, stores, last, iters>>

\* Config::shared: self.clone()
Shared(h) == Clone(h)

\* A handle goes out of scope: the Arc's count falls and the Store is
\* released with the last handle. An iterator of flatten borrows its handle
\* (impl Iterator + '_), so that handle outlives its iterators.
Drop(h) ==
  /\ Live(h)
  /\ \A it \in BagToSet(iters) : it.h # h
  /\ ptr' = [ptr EXCEPT ![h] = 0]
  /\ heap' = [heap EXCEPT ![ptr[h]] =
                IF @.strong = 1
                THEN [data |-> StoreDefault(@.backing), backing |-> @.backing,
                      strong |-> 0, freed |-> TRUE]
                ELSE [@ EXCEPT !.strong = @ - 1]]
  /\ UNCHANGED <<source, root, built, stores, last, iters>>

\* Config::get
get(h, key) == StoreGet(BackingOf(h), StoreOf(h), key)

\* impl_getters!: self.get(key).and_then(Value::$method)
get_string(h, key) == IF get(h, key).some THEN as_str(get(h, key).val) ELSE None
get_int(h, key) == IF get(h, key).some THEN as_integer(get(h, key).val) ELSE None
get_float(h, key) == IF get(h, key).some THEN as_float(get(h, key).val) ELSE None
get_bool(h, key) == IF get(h, key).some THEN as_bool(get(h, key).val) ELSE None

\* The closure of Config::flatten: one entry of the Store to one pair
FlattenPair(k, v) == <<k, RenderValue(v)>>

\* Config::flatten driven to its end over one iteration of the Store
flatten(it) == [i \in 1..Len(it) |-> FlattenPair(it[i][1], it[i][2])]

\* Config::flatten_into
flatten_into(C, it) == Collect(C, flatten(it))

Read(h, op, key, res) ==
  /\ Live(h)
  /\ last' = [op |-> op, h |-> h, key |-> key, res |-> res]
  /\ UNCHANGED <<source, root, built, stores, heap, ptr, iters>>

Get(h, key) == Read(h, "get", key, get(h, key))
GetString(h, key) == Read(h, "get_string", key, get_string(h, key))
GetInt(h, key) == Read(h, "get_int", key, get_int(h, key))
GetFloat(h, key) == Read(h, "get_float", key, get_float(h, key))
GetBool(h, key) == Read(h, "get_bool", key, get_bool(h, key))

\* Config::flatten: returns a lazy iterator over the Store of the handle, in
\* one of the orders the backing can iterate in; nothing is read yet.
\* h: the handle it borrows; keys: the order; out: the pairs yielded so far
Flatten(h) ==
  /\ Live(h)
  /\ BagCardinality(iters) < MaxIters
  /\ \E order \in StoreIter(BackingOf(h), StoreOf(h)) :
       iters' = iters (+) SetToBag({[h |-> h,
                                     keys |-> [i \in 1..Len(order) |-> order[i][1]],
                                     out |-> <<>>]})
  /\ UNCHANGED <<source, root, built, stores, heap, ptr, last>>

\* Iterator::next on an iterator of flatten, an entry left: reads the entry
\* from the Store as it is now and yields its pair
FlattenNext(it) ==
  /\ BagIn(it, iters)
  /\ Len(it.out) < Len(it.keys)
  /\ LET k == it.keys[Len(it.out) + 1]
     IN iters' = (iters (-) SetToBag({it}))
                 (+) SetToBag({[it EXCEPT !.out = Append(@, FlattenPair(k, get(it.h, k).val))]})
  /\ UNCHANGED <<source, root, built, stores, heap, ptr, last>>

\* Iterator::next on an iterator of flatten, no entry left: returns None,
\* and the caller has the pairs of the whole iteration; the iterator stays
\* alive (and answers None again) until it is dropped
FlattenEnd(it) ==
  /\ BagIn(it, iters)
  /\ Len(it.out) = Len(it.keys)
  /\ last' = [op |-> "flatten", h |-> it.h, key |-> <<>>, res |-> it.out]
  /\ UNCHANGED <<source, root, built, stores, heap, ptr, iters>>

\* The caller drops an iterator of flatten, at its end or before
FlattenDrop(it) ==
  /\ BagIn(it, iters)
  /\ iters' = iters (-) SetToBag({it})
  /\ UNCHANGED <<source, root, built, stores, heap, ptr, last>>

\* Config::flatten_into: flatten().collect() within the one call
FlattenInto(h, C) ==
  /\ Live(h)
  /\ \E it \in StoreIter(BackingOf(h), StoreOf(h)) :
       last' = [op |-> "flatten_into", h |-> h, key |-> <<>>, into |-> C,
                res |-> flatten_into(C, it)]
  /\ UNCHANGED <<source, root, built, stores, heap, ptr, iters>>

\* The read model follows one Config
NextRead ==
  \/ \E S \in Backings : built = {} /\ FromTomlWith(S)
  \/ \E h \in Handles, key \in ReadKeys : Get(h, key)
  \/ \E h \in Handles, key \in ReadKeys : GetString(h, key)
  \/ \E h \in Handles, key \in ReadKeys : GetInt(h, key)
  \/ \E h \in Handles, key \in ReadKeys : GetFloat(h, key)
  \/ \E h \in Handles, key \in ReadKeys : GetBool(h, key)
  \/ \E h \in Handles : Flatten(h)
  \/ \E it \in BagToSet(iters) : FlattenNext(it)
  \/ \E it \in BagToSet(iters) : FlattenEnd(it)
  \/ \E it \in BagToSet(iters) : FlattenDrop(it)
  \/ \E h \in Handles, C \in Collections : FlattenInto(h, C)

SpecRead == InitRead /\ [][NextRead]_vars

(***************************************************************************)
(* State machine of the sharing model: the handles of one Config<S> are    *)
(* shared, cloned, dropped and read in any interleaving.                   *)
(***************************************************************************)
InitShare ==
  /\ source = NoSource
  /\ root \in ReadDocs(ShareValues, ShareFields)
  /\ Unbuilt

NextShare ==
  \/ NextRead
  \/ \E h \in Handles : Shared(h)
  \/ \E h \in Handles : Clone(h)
  \/ \E h \in Handles : Drop(h)

SpecShare == InitShare /\ [][NextShare]_vars

(***************************************************************************)
(* What the claims speak of, stated on the tree alone: paths, leaves and   *)
(* key names, without any Store.                                           *)
(***************************************************************************)
Loaded == built = Backings

IsArray(v) == v.tag = "Array"
IsScalar(v) == v.tag \notin {"Table", "Array"}

\* An array the Flattener expands: its first element is a table
IsTableArray(v) == IsArray(v) /\ v.elems # <<>> /\ is_table(v.elems[1])

\* An array the Flattener keeps whole: empty, or its first element is no table
IsPrimitiveArray(v) == IsArray(v) /\ ~IsTableArray(v)

\* An array of N >= 1 elements, all of them tables
IsArrayOfTables(v) ==
  IsArray(v) /\ v.elems # <<>> /\ \A i \in 1..Len(v.elems) : is_table(v.elems[i])

RECURSIVE OnlyTablesAndScalars(_)
OnlyTablesAndScalars(v) ==
  \/ IsScalar(v)
  \/ /\ is_table(v)
     /\ \A i \in 1..Len(v.entries) : OnlyTablesAndScalars(v.entries[i][2])

RECURSIVE NamesIn(_)
\* Every field name that occurs in a value
NamesIn(v) ==
  IF is_table(v)
  THEN UNION {{v.entries[i][1]} \cup NamesIn(v.entries[i][2]) : i \in 1..Len(v.entries)}
  ELSE IF IsArray(v) THEN UNION {NamesIn(v.elems[i]) : i \in 1..Len(v.elems)}
  ELSE {}

\* A name that is not empty and holds neither "." nor "["
IsPlainName(n) == n # <<>> /\ \A i \in 1..Len(n) : n[i] \notin {".", "["}

PlainNames(v) == \A n \in NamesIn(v) : IsPlainName(n)

RECURSIVE SeqConcat(_)
\* The concatenation of a sequence of sequences
SeqConcat(ss) == IF ss = <<>> THEN <<>> ELSE Head(ss) \o SeqConcat(Tail(ss))

RECURSIVE TableLeaves(_, _)
\* The scalars of a tree of tables, in document order, each with the field
\* names on the way to it from the root
TableLeaves(path, v) ==
  IF is_table(v)
  THEN SeqConcat([i \in 1..Len(v.entries) |->
                    TableLeaves(Append(path, v.entries[i][1]), v.entries[i][2])])
  ELSE <<<<path, v>>>>

RECURSIVE DotJoin(_)
\* The names of a path joined by "."
DotJoin(path) ==
  IF path = <<>> THEN <<>>
  ELSE IF Len(path) = 1 THEN path[1]
  ELSE path[1] \o <<".">> \o DotJoin(Tail(path))

\* The text of an array index below ten
IndexText(i) == <<"[", DigitChars[i + 1], "]">>

\* The key of a table's field: name, or prefix.name under a non-empty prefix
ChildKey(prefix, name) == IF prefix = <<>> THEN name ELSE prefix \o <<".">> \o name

RECURSIVE Nodes(_, _)
\* Every node the walk arrives at, with the key it arrives under
Nodes(prefix, v) ==
  {<<prefix, v>>}
  \cup (IF is_table(v)
        THEN UNION {Nodes(ChildKey(prefix, v.entries[i][1]), v.entries[i][2]) :
                    i \in 1..Len(v.entries)}
        ELSE IF IsTableArray(v)
        THEN UNION {Nodes(prefix \o IndexText(i - 1), v.elems[i]) : i \in 1..Len(v.elems)}
        ELSE {})

RECURSIVE Leaves(_, _)
\* The leaves (scalars and arrays kept whole) the walk arrives at, in
\* document order, each with the key it arrives under
Leaves(prefix, v) ==
  IF is_table(v)
  THEN SeqConcat([i \in 1..Len(v.entries) |->
                    Leaves(ChildKey(prefix, v.entries[i][1]), v.entries[i][2])])
  ELSE IF IsTableArray(v)
  THEN SeqConcat([i \in 1..Len(v.elems) |->
                    Leaves(prefix \o IndexText(i - 1), v.elems[i])])
  ELSE <<<<prefix, v>>>>

RECURSIVE SubPaths(_)
\* A value's own flattened sub-paths: what its keys add to the key it sits at
SubPaths(v) ==
  IF is_table(v)
  THEN UNION {{<<".">> \o v.entries[i][1] \o s : s \in SubPaths(v.entries[i][2])} :
              i \in 1..Len(v.entries)}
  ELSE IF IsTableArray(v)
  THEN UNION {{IndexText(i - 1) \o s : s \in SubPaths(v.elems[i])} :
              i \in 1..Len(v.elems)}
  ELSE {<<>>}

StartsWith(k, p) == Len(k) >= Len(p) /\ SubSeq(k, 1, Len(p)) = p

\* The keys of a sequence of <<key, value>> pairs
KeySet(pairs) == {pairs[i][1] : i \in 1..Len(pairs)}

\* The value of the last pair of a sequence that has the key
LastAt(pairs, key) ==
  pairs[CHOOSE i \in 1..Len(pairs) :
          /\ pairs[i][1] = key
          /\ \A j \in (i + 1)..Len(pairs) : pairs[j][1] # key][2]

RECURSIVE FirstOccurrences(_)
\* A sequence without the repetitions of its elements
FirstOccurrences(seq) ==
  IF seq = <<>> THEN <<>>
  ELSE LET front == FirstOccurrences(SubSeq(seq, 1, Len(seq) - 1))
           x == seq[Len(seq)]
       IN IF \E i \in 1..Len(front) : front[i] = x THEN front ELSE Append(front, x)

RECURSIVE KeptKeys(_)
\* The non-empty keys of a sequence of leaves, in order
KeptKeys(leaves) ==
  IF leaves = <<>> THEN <<>>
  ELSE (IF Head(leaves)[1] = <<>> THEN <<>> ELSE <<Head(leaves)[1]>>)
       \o KeptKeys(Tail(leaves))

(***************************************************************************)
(* C1: tables and scalars.                                                 *)
(***************************************************************************)
\* The documents of C1: a root table holding only tables and scalars
IsTableTree == is_table(root) /\ OnlyTablesAndScalars(root)

\* No top-level field name is empty and no two leaves share a dot-joined path
C1_Unambiguous ==
  LET ls == TableLeaves(<<>>, root)
  IN /\ \A i \in 1..Len(root.entries) : root.entries[i][1] # <<>>
     /\ \A i, j \in 1..Len(ls) : i # j => DotJoin(ls[i][1]) # DotJoin(ls[j][1])

\* C1 as stated: for every root table of tables and scalars, whatever its
\* field names, the Store holds exactly one entry per leaf scalar, keyed by
\* the dot-joined path of the leaf.
C1_AsStated ==
  (Loaded /\ IsTableTree) =>
    LET ls == TableLeaves(<<>>, root)
    IN \A S \in Backings :
         /\ StoreKeys(S, stores[S]) = {DotJoin(ls[i][1]) : i \in 1..Len(ls)}
         /\ Cardinality(StoreKeys(S, stores[S])) = Len(ls)

\* C1 (amended): for every root table of tables and scalars in which no
\* top-level field name is empty and no two leaves have the same dot-joined
\* path, the Store holds exactly one entry per leaf scalar, its key is the
\* dot-joined path of the leaf and its value is the leaf.
C1_OneEntryPerLeaf ==
  (Loaded /\ IsTableTree /\ C1_Unambiguous) =>
    LET ls == TableLeaves(<<>>, root)
    IN \A S \in Backings :
         /\ StoreKeys(S, stores[S]) = {DotJoin(ls[i][1]) : i \in 1..Len(ls)}
         /\ Cardinality(StoreKeys(S, stores[S])) = Len(ls)
         /\ \A i \in 1..Len(ls) :
              StoreGet(S, stores[S], DotJoin(ls[i][1])) = Some(ls[i][2])

\* A loaded document with a nested table, two leaves and a dotted field name
C1_Witness ==
  /\ Loaded /\ IsTableTree /\ C1_Unambiguous
  /\ LET ls == TableLeaves(<<>>, root)
     IN /\ Len(ls) = 2
        /\ \E i \in 1..Len(ls) : Len(ls[i][1]) = 2
        /\ \E i \in 1..Len(ls) : \E j \in 1..Len(ls[i][1]) : ~IsPlainName(ls[i][1][j])

(***************************************************************************)
(* C2: arrays of tables.                                                   *)
(***************************************************************************)
\* The keys an array of tables at key P gives: P[i] and the element's own
\* sub-paths, for every index i from 0
ExpandedKeys(P, array) ==
  UNION {{P \o IndexText(i - 1) \o s : s \in SubPaths(array.elems[i])} :
         i \in 1..Len(array.elems)}

\* C2 as stated: for every array of N tables at path P the keys P[i] and
\* sub-paths are produced, and after flattening the whole document the
\* Store has no entry whose key is P.
C2_AsStated ==
  (Loaded /\ is_table(root)) =>
    \A S \in Backings : \A n \in Nodes(<<>>, root) :
      IsArrayOfTables(n[2]) =>
        /\ ExpandedKeys(n[1], n[2]) \subseteq StoreKeys(S, stores[S])
        /\ n[1] \notin StoreKeys(S, stores[S])

\* C2 (amended): for every array of N >= 1 tables at key P, flattening
\* produces for each index i in 0..N-1 the keys P[i] followed by the
\* element's own sub-paths, and all of them are in the Store afterwards; in
\* a document whose field names are non-empty and hold neither "." nor "["
\* these are exactly the Store's keys that begin with P[, and the Store has
\* no entry whose key is P.
C2_ArrayOfTables ==
  (Loaded /\ is_table(root)) =>
    \A S \in Backings : \A n \in Nodes(<<>>, root) :
      IsArrayOfTables(n[2]) =>
        /\ ExpandedKeys(n[1], n[2]) \subseteq StoreKeys(S, stores[S])
        /\ PlainNames(root) =>
             /\ n[1] \notin StoreKeys(S, stores[S])
             /\ {k \in StoreKeys(S, stores[S]) : StartsWith(k, n[1] \o <<"[">>)}
                  = ExpandedKeys(n[1], n[2])

\* A loaded document with plain names and an array of two tables whose
\* second element has a field
C2_Witness ==
  /\ Loaded /\ is_table(root) /\ PlainNames(root)
  /\ \E n \in Nodes(<<>>, root) :
       /\ IsArrayOfTables(n[2])
       /\ Len(n[2].elems) = 2
       /\ n[1] \o <<"[", "1", "]", ".", "a">> \in StoreKeys("HashMap", stores["HashMap"])

(***************************************************************************)
(* C3: arrays kept whole.                                                  *)
(***************************************************************************)
\* C3 as stated: for every array at a non-empty path P whose first element
\* is absent or no table, after flattening the Store's entry at P is the
\* whole array.
C3_AsStated ==
  (Loaded /\ is_table(root)) =>
    \A S \in Backings : \A n \in Nodes(<<>>, root) :
      (IsPrimitiveArray(n[2]) /\ n[1] # <<>>) =>
        StoreGet(S, stores[S], n[1]) = Some(n[2])

\* C3 (amended): for every array at a non-empty key P whose first element is
\* absent or no table, the Store has an entry at P, and it is the whole
\* array unless a leaf later in document order has the same key (then it is
\* the last such leaf); in a document whose field names are non-empty and
\* hold neither "." nor "[" the entry at P is the whole array and the Store
\* has no key of the form P[i]...
C3_PrimitiveArray ==
  (Loaded /\ is_table(root)) =>
    \A S \in Backings : \A n \in Nodes(<<>>, root) :
      (IsPrimitiveArray(n[2]) /\ n[1] # <<>>) =>
        /\ StoreGet(S, stores[S], n[1]) = Some(LastAt(Leaves(<<>>, root), n[1]))
        /\ PlainNames(root) =>
             /\ StoreGet(S, stores[S], n[1]) = Some(n[2])
             /\ \A k \in StoreKeys(S, stores[S]) : ~StartsWith(k, n[1] \o <<"[">>)

\* A loaded document with plain names and an array of two scalars
C3_Witness ==
  /\ Loaded /\ is_table(root) /\ PlainNames(root)
  /\ \E n \in Nodes(<<>>, root) :
       /\ IsPrimitiveArray(n[2]) /\ Len(n[2].elems) = 2 /\ n[1] # <<>>
       /\ StoreGet("BTreeMap", stores["BTreeMap"], n[1]) = Some(n[2])

(***************************************************************************)
(* C4: what a Store can hold.                                              *)
(***************************************************************************)
\* The values a store holds
StoreValues(S, m) ==
  IF S = "HashMap" THEN {m[k] : k \in DOMAIN m} ELSE {m[i][2] : i \in 1..Len(m)}

\* C4 as stated: every stored value is a scalar or an array without a table
C4_AsStated ==
  Loaded =>
    \A S \in Backings : \A v \in StoreValues(S, stores[S]) :
      /\ ~is_table(v)
      /\ IsArray(v) => \A i \in 1..Len(v.elems) : ~is_table(v.elems[i])

\* C4 (amended): no stored value is a Table and no stored value is an array
\* whose first element is a Table (an array is classified by its first
\* element alone, so a stored array may hold tables after a first element
\* that is no table).
C4_NoTableStored ==
  Loaded =>
    \A S \in Backings : \A v \in StoreValues(S, stores[S]) :
      ~is_table(v) /\ ~IsTableArray(v)

\* A loaded document with a mixed array that starts with a table: its table
\* is descended into and its scalar is stored under an indexed key
C4_Witness ==
  /\ Loaded /\ is_table(root)
  /\ \E n \in Nodes(<<>>, root) :
       /\ IsTableArray(n[2]) /\ ~IsArrayOfTables(n[2])
       /\ StoreKeys("IndexMap", stores["IndexMap"]) # {}

(***************************************************************************)
(* C7: the three backings.                                                 *)
(***************************************************************************)
\* Keys to look up: every stored key, an indexed key and the empty key
ProbeKeys ==
  UNION {StoreKeys(S, stores[S]) : S \in Backings}
  \cup {<<>>, <<"a", "[", "0", "]">>}

\* C7: flattening a tree into the hash-based, the sorted and the
\* insertion-ordered backing gives the same keys, the same get(k) for every
\* key, and iterations that yield the same set of pairs, each entry once.
C7_SameMapping ==
  Loaded =>
    \A S, T \in Backings :
      /\ StoreKeys(S, stores[S]) = StoreKeys(T, stores[T])
      /\ \A k \in ProbeKeys : StoreGet(S, stores[S], k) = StoreGet(T, stores[T], k)
      /\ \A it \in StoreIter(S, stores[S]) : \A jt \in StoreIter(T, stores[T]) :
           /\ {it[i] : i \in 1..Len(it)} = {jt[i] : i \in 1..Len(jt)}
           /\ Len(it) = Cardinality(StoreKeys(S, stores[S]))
           /\ \A i \in 1..Len(it) : StoreGet(S, stores[S], it[i][1]) = Some(it[i][2])

\* A loaded tree in which a later leaf overwrote an earlier one and the
\* backings hold two keys
C7_Witness ==
  /\ Loaded
  /\ Cardinality(StoreKeys("HashMap", stores["HashMap"])) = 2
  /\ Len(KeptKeys(Leaves(<<>>, root))) = 3

(***************************************************************************)
(* C9: insertion order.                                                    *)
(***************************************************************************)
\* The flattened key of every line of the source document, in source order
SourceKeys == [i \in 1..Len(source.lines) |-> DotJoin(source.lines[i][1])]

\* The keys of the insertion-ordered Store in the order it iterates them
IndexMapKeys == [i \in 1..Len(stores["IndexMap"]) |-> stores["IndexMap"][i][1]]

\* The lines of a table are written one after the other
Contiguous ==
  \A i, j, k \in 1..Len(source.lines) :
    (i < j /\ j < k /\ source.lines[i][1][1] = source.lines[k][1][1])
      => source.lines[j][1][1] = source.lines[i][1][1]

\* C9 as stated: the insertion-ordered backing iterates the keys in the
\* order in which they appear in the source document.
C9_AsStated ==
  Loaded => IndexMapKeys = FirstOccurrences(SourceKeys)

\* C9 (amended): the insertion-ordered backing iterates the keys in the
\* order in which the walk of the parsed tree arrives at them, each table in
\* the order the parser's table has, a key at its first arrival; this is the
\* order of the source document when the parser is built with preserve_order
\* and the document writes the lines of each table one after the other.
C9_DocumentOrder ==
  Loaded =>
    /\ \A it \in StoreIter("IndexMap", stores["IndexMap"]) :
         [i \in 1..Len(it) |-> it[i][1]] = FirstOccurrences(KeptKeys(Leaves(<<>>, root)))
    /\ (source.preserve_order /\ Contiguous) =>
         IndexMapKeys = FirstOccurrences(SourceKeys)

\* A loaded document of three top-level keys written out of key order, the
\* parser built with preserve_order: they are iterated as written
C9_Witness ==
  /\ Loaded /\ source.preserve_order /\ Len(source.lines) = 3
  /\ \A i \in 1..3 : Len(source.lines[i][1]) = 1
  /\ StrLess(SourceKeys[2], SourceKeys[1])
  /\ IndexMapKeys = SourceKeys
  /\ stores["IndexMap"] # stores["BTreeMap"]

(***************************************************************************)
(* C10: a value that is no table, flattened with the empty prefix.          *)
(***************************************************************************)
\* The values that are no tables and that the Flattener is run on with the
\* empty prefix: the parser's root is a Table, so these are the values under
\* the empty name at the top level (or under a chain of empty names)
EmptyPrefixRuns == {n[2] : n \in {m \in Nodes(<<>>, root) : m[1] = <<>> /\ ~is_table(m[2])}}

\* The Store such a run gives by itself
RunAlone(S, v) == flatten_value(S, StoreDefault(S), <<>>, v)

\* The document has one field, with the empty name, and its value is no table
OnlyEmptyName ==
  /\ Len(root.entries) = 1
  /\ root.entries[1][1] = <<>>
  /\ ~is_table(root.entries[1][2])

HasLeaf(key) == key # <<>> /\ key \in KeySet(Leaves(<<>>, root))

\* The document's value under a key: its last leaf with that key
LeafAt(key) == LastAt(Leaves(<<>>, root), key)

\* C5: a typed getter returns absence exactly when the key is not in the
\* Store or the stored value has another type (an integer is no float, a
\* float no integer) and the stored value otherwise; get is an exact-match
\* lookup that returns absence for a missing key.
C5_Getters ==
  LET k == last.key
  IN /\ last.op = "get" => last.res = (IF HasLeaf(k) THEN Some(LeafAt(k)) ELSE None)
     /\ last.op = "get_string" =>
          /\ last.res = None <=> (~HasLeaf(k) \/ LeafAt(k).tag # "String")
          /\ last.res # None => last.res = Some(LeafAt(k).str)
     /\ last.op = "get_int" =>
          /\ last.res = None <=> (~HasLeaf(k) \/ LeafAt(k).tag # "Integer")
          /\ last.res # None => last.res = Some(LeafAt(k).int)
     /\ last.op = "get_float" =>
          /\ last.res = None <=> (~HasLeaf(k) \/ LeafAt(k).tag # "Float")
          /\ last.res # None => last.res = Some(LeafAt(k).tenths)
     /\ last.op = "get_bool" =>
          /\ last.res = None <=> (~HasLeaf(k) \/ LeafAt(k).tag # "Boolean")
          /\ last.res # None => last.res = Some(LeafAt(k).bool)

\* get_float asked for a key that holds an integer, and answered absence
C5_Witness ==
  /\ last.op = "get_float"
  /\ HasLeaf(last.key) /\ LeafAt(last.key).tag = "Integer"
  /\ last.res = None

(***************************************************************************)
(* C6: shared handles.                                                     *)
(***************************************************************************)
LiveHandles == {h \in Handles : Live(h)}

\* C6: after construction, whatever handles are shared, cloned, dropped and
\* read, the Store keeps the contents it was constructed with, every live
\* handle answers every get as the original did, sharing copies no data (all
\* handles refer to the one allocation), the Store is released exactly when
\* the last handle is dropped, and every iteration of flatten, whatever
\* other operations and other iterations interleave with it, yields the
\* pairs of the constructed Store.
C6_SharedImmutable ==
  built # {} =>
    /\ Len(heap) = 1
    /\ \A h \in LiveHandles :
         /\ ptr[h] = 1
         /\ StoreOf(h) = stores[Backing]
         /\ \A k \in ReadKeys : get(h, k) = StoreGet(Backing, stores[Backing], k)
    /\ heap[1].freed <=> LiveHandles = {}
    /\ heap[1].strong = Cardinality(LiveHandles)
    /\ (last.op = "get" /\ Live(last.h)) =>
         last.res = StoreGet(Backing, stores[Backing], last.key)
    /\ \A it \in BagToSet(iters) :
         /\ Live(it.h)
         /\ \A i \in 1..Len(it.out) :
              it.out[i] = FlattenPair(it.keys[i],
                            StoreGet(Backing, stores[Backing], it.keys[i]).val)

\* The original handle is dropped and two iterations of flatten through the
\* shared handle are under way at once, one with a pair yielded and a pair to
\* come, the other at its end
C6_Witness ==
  /\ built # {} /\ ~Live(1) /\ Live(2)
  /\ heap[1].strong = 1 /\ ~heap[1].freed
  /\ \E it, jt \in BagToSet(iters) :
       /\ it.h = 2 /\ jt.h = 2
       /\ Len(it.keys) = 2 /\ Len(it.out) = 1 /\ Len(jt.out) = 2

(***************************************************************************)
(* C8: flatten and flatten_into.                                           *)
(***************************************************************************)
\* The display form of the values of the read model, written out
ExpectedText(v) ==
  CASE v = StringV(<<"a">>) -> <<"a">>
    [] v = IntegerV(10) -> <<"1", "0">>
    [] v = FloatV(55) -> <<"5", ".", "5">>
    [] v = BooleanV(TRUE) -> <<"t", "r", "u", "e">>
    [] v = DatetimeV(<<"1", "9", "7", "9", "-", "0", "5", "-", "2", "7">>) ->
         <<"1", "9", "7", "9", "-", "0", "5", "-", "2", "7">>
    [] v = ArrayV(<<IntegerV(80), IntegerV(443)>>) ->
         <<"[", "8", "0", ",", " ", "4", "4", "3", "]">>

\* One (key, text) pair per entry of the document
ExpectedPairs ==
  {<<k, ExpectedText(LeafAt(k))>> : k \in KeySet(Leaves(<<>>, root)) \ {<<>>}}

\* C8: flatten yields one (key, string) pair per Store entry and no other, a
\* string as its raw content and any other value in its display form
\* (true, 5.5), the same set of pairs at every call (each pair of an
\* iteration under way is one of them, no key twice), and flatten_into a
\* key-sorted mapping yields the same sorted result whatever the order in
\* which the backing Store iterates.
C8_Flatten ==
  /\ (last.op \in {"flatten", "flatten_into"}) =>
       /\ {last.res[i] : i \in 1..Len(last.res)} = ExpectedPairs
       /\ Len(last.res) = Cardinality(StoreKeys(Backing, stores[Backing]))
       /\ (last.op = "flatten_into" /\ last.into = "BTreeMap") =>
            \A i \in 1..(Len(last.res) - 1) :
              StrLess(last.res[i][1], last.res[i + 1][1])
  /\ \A it \in BagToSet(iters) :
       \A i \in 1..Len(it.out) :
         /\ it.out[i] \in ExpectedPairs
         /\ \A j \in 1..Len(it.out) : i # j => it.out[i][1] # it.out[j][1]

\* A Store that iterates a.a before a is flattened into a sorted mapping,
\* with a float and a boolean among its values
C8_Witness ==
  /\ last.op = "flatten_into" /\ last.into = "BTreeMap"
  /\ Backing = "IndexMap"
  /\ [i \in 1..Len(stores["IndexMap"]) |-> stores["IndexMap"][i][1]]
       = <<<<"a", ".", "a">>, <<"a">>>>
  /\ last.res = <<<<<<"a">>, <<"5", ".", "5">>>>,
                  <<<<"a", ".", "a">>, <<"t", "r", "u", "e">>>>>>

=============================================================================
